---------------------------- MODULE Spec2Model ----------------------------
(***************************************************************************)
(* Model of src/src/poster/watch.py: the segment delivery pipeline.        *)
(*                                                                         *)
(* Two threads: the main thread (module body: login, observer.start, the   *)
(* sleep loop, shutdown) and the watchdog observer thread, which takes one event at  *)
(* a time from its queue and runs NewSegmentHandler on it.  on_closed      *)
(* calls SegmentSender.send synchronously; send is wrapped by              *)
(* @retry(wait_random_min=1000, wait_random_max=2000).                     *)
(***************************************************************************)
EXTENDS Integers, Sequences, FiniteSets, TLC

(***************************************************************************)
(* Bounds of the model.                                                    *)
(***************************************************************************)
\* total number of filesystem events the watcher emits in one run
MaxEvents == 2
\* number of attempts the model follows inside one send call
MaxAttempts == 3

(***************************************************************************)
(* Program constants.                                                      *)
(***************************************************************************)
wait_random_min == 1000
wait_random_max == 2000

(***************************************************************************)
(* Paths are sequences of characters, so that the regular expression of    *)
(* on_closed is computed on them.                                          *)
(***************************************************************************)
NL == "\n"
SegA == <<"a", ".", "t", "s">>
SegB == <<"b", ".", "t", "s">>
Notes == <<"n", ".", "t", "x", "t">>
SegNL == <<"c", ".", "t", "s", NL>>
Paths == {SegA, SegB, Notes, SegNL}
NoPath == <<>>

\* event_type values of watchdog's FileSystemEvent
EventKinds == {"modified", "closed", "deleted"}
Events == [event_type : EventKinds, src_path : Paths]

(***************************************************************************)
(* re.search(r'\.ts$', src_path).  In Python, without re.MULTILINE, "$"    *)
(* matches at the end of the string and also just before a newline that    *)
(* is the last character of the string.                                    *)
(***************************************************************************)
AtDollar(s, k) ==
    \/ k = Len(s)
    \/ k = Len(s) - 1 /\ s[Len(s)] = NL

ReSearchTs(s) ==
    \E i \in 1..Len(s) :
        /\ i + 2 <= Len(s)
        /\ s[i] = "."
        /\ s[i + 1] = "t"
        /\ s[i + 2] = "s"
        /\ AtDollar(s, i + 2)

(***************************************************************************)
(* The JSON body of an upload response.  Durations are in milliseconds.    *)
(***************************************************************************)
Durations == {-1000, 0, 3990}
Results == [checksum : BOOLEAN, duration : Durations, db_stored : BOOLEAN]
NoResult == [checksum |-> FALSE, duration |-> 0, db_stored |-> FALSE]
\* body kinds: a JSON object with the three keys, a JSON object without
\* them, a body that is not JSON; "none" before any response
BodyKinds == {"json", "nokeys", "notjson"}
Responses == [body : {"json"}, result : Results]
                 \cup [body : {"nokeys", "notjson"}, result : {NoResult}]
NoResponse == [body |-> "none", result |-> NoResult]

(***************************************************************************)
(* The if/elif chain of send (lines 122-131): which branch runs.           *)
(***************************************************************************)
\* a chain that does not test db_stored
Branch_NoDbCheck(result) ==
    IF ~ result.checksum THEN "raise_checksum_exception"
    ELSE IF ~ (result.duration > 0) THEN "raise_file_store_exception"
    ELSE "else"

\* a chain that tests db_stored before duration
Branch_DbFirst(result) ==
    IF ~ result.checksum THEN "raise_checksum_exception"
    ELSE IF ~ result.db_stored THEN "raise_db_update_exception"
    ELSE IF ~ (result.duration > 0) THEN "raise_file_store_exception"
    ELSE "else"

Branch(result) ==
    IF ~ result.checksum THEN "raise_checksum_exception"
    ELSE IF ~ (result.duration > 0) THEN "raise_file_store_exception"
    ELSE IF ~ result.db_stored THEN "raise_db_update_exception"
    ELSE "else"

(***************************************************************************)
(* What each helper called by a branch raises (lines 54-73).               *)
(* raise_db_update_exception has no raise statement: it returns None.      *)
(***************************************************************************)
Raises(branch) ==
    CASE branch = "raise_checksum_exception" -> "ChecksumException"
      [] branch = "raise_file_store_exception" -> "FileStoreException"
      [] branch = "raise_db_update_exception" -> "none"
      [] OTHER -> "none"

(***************************************************************************)
(* retrying.Retrying as configured at line 107: no stop condition, every   *)
(* exception is retried, a returned value is never retried, and the wait   *)
(* is random.randint(wait_random_min, wait_random_max).                    *)
(***************************************************************************)
ShouldReject(exc) == exc # "none"

WaitCandidates == {0, 999, 1000, 2000, 2001}
\* a wait that is not held to the window
RandomSleep_Unbounded == WaitCandidates

RandomSleep == {w \in WaitCandidates : wait_random_min <= w /\ w <= wait_random_max}

(***************************************************************************)
(* State.                                                                  *)
(***************************************************************************)
VARIABLES
    main,        \* main thread: "login", "constructed", "watching", "joining",
                 \* or the process is over: "crashed", "exited", "killed"
    api_url,     \* SegmentSender.api_url, "unset" before __init__
    camera,      \* SegmentSender.camera, "unset" before __init__ sets it
    token,       \* X-CSRFToken header of api_session, "none" before login
    loginCalls,  \* number of GET login/ requests made
    queue,       \* the observer's event queue
    emitted,     \* number of events emitted so far
    pc,          \* observer thread: "idle", "checksum", "post", "response", "retry"
    filename,    \* argument of the send call in progress
    attempt,     \* retrying's attempt_number of the call in progress
    segment_sha1,\* checksum computed by the attempt in progress
    response,    \* response of the attempt's POST
    branch,      \* branch of the if/elif chain the last attempt ran
    exc,         \* exception the last attempt ended with, "none" if it returned
    wait,        \* ms slept before the attempt about to start, 0 otherwise
    exists,      \* paths whose file exists in the watched directory
    acks,        \* per path: responses with checksum, duration > 0 and db_stored
    segment_sent,\* the statsd counter segment_sent
    sent_in_call,\* increments of segment_sent made by the current send call
    inflight     \* number of send calls started and not yet returned

mainVars == <<main, api_url, camera, token, loginCalls>>
watchVars == <<queue, emitted>>
sendVars == <<pc, filename, attempt, segment_sha1, response, branch, exc, wait>>
histVars == <<acks, segment_sent, sent_in_call, inflight>>
vars == <<mainVars, watchVars, sendVars, exists, histVars>>

\* content digest of a file; the model's files are named by their content
Sha1(path) == <<"sha1", path>>
NoSha1 == <<>>

Init ==
    /\ main = "login"
    /\ api_url = "unset"
    /\ camera = "unset"
    /\ token = "none"
    /\ loginCalls = 0
    /\ queue = <<>>
    /\ emitted = 0
    /\ pc = "idle"
    /\ filename = NoPath
    /\ attempt = 0
    /\ segment_sha1 = NoSha1
    /\ response = NoResponse
    /\ branch = "none"
    /\ exc = "none"
    /\ wait = 0
    /\ exists = Paths
    /\ acks = [p \in Paths |-> 0]
    /\ segment_sent = 0
    /\ sent_in_call = 0
    /\ inflight = 0


(***************************************************************************)
(* Main thread.                                                            *)
(***************************************************************************)
\* what the GET login/ of _api_session can end with: the request raises,
\* the body is not JSON, the JSON has no "token" key, or a token comes back
LoginOutcomes == {"ConnectionError", "JSONDecodeError", "KeyError", "token"}

\* a login whose failure is swallowed: construction goes on without a token
ApiSession_Swallow(outcome) ==
    /\ loginCalls' = loginCalls + 1
    /\ token' = IF outcome = "token" THEN "csrf" ELSE token
    /\ main' = "constructed"

\* SegmentSender._api_session: one request, no retry decorator, no handler;
\* an exception leaves the class body and ends the process
ApiSession(outcome) ==
    /\ loginCalls' = loginCalls + 1
    /\ IF outcome = "token"
       THEN token' = "csrf" /\ main' = "constructed"
       ELSE token' = token /\ main' = "crashed"

\* class NewSegmentHandler: sender = SegmentSender(args).  __init__ sets
\* api_url, calls _api_session, and sets camera when that call returned
Login ==
    /\ main = "login"
    /\ api_url' = "args.api"
    /\ \E outcome \in LoginOutcomes :
          /\ ApiSession(outcome)
          /\ camera' = IF outcome = "token" THEN "camera_name" ELSE camera
    /\ UNCHANGED <<watchVars, sendVars, exists, histVars>>

\* event_handler = ..., observer.schedule(...), observer.start()
ObserverStart ==
    /\ main = "constructed"
    /\ main' = "watching"
    /\ UNCHANGED <<api_url, camera, token, loginCalls, watchVars, sendVars,
                   exists, histVars>>

(***************************************************************************)
(* Signals.  The module installs no signal handler: SIGINT raises          *)
(* KeyboardInterrupt in the main thread's sleep loop, whose finally block  *)
(* calls observer.stop() and observer.join(); SIGTERM has its default      *)
(* action and ends the process at once.                                    *)
(***************************************************************************)
\* SIGINT in the sleep loop: finally runs observer.stop(), then join starts
Interrupt ==
    /\ main = "watching"
    /\ main' = "joining"
    /\ UNCHANGED <<api_url, camera, token, loginCalls, watchVars, sendVars,
                   exists, histVars>>

\* observer.join() returns when the observer thread has ended, which it
\* does once the handler it is running has returned; the process exits
Join ==
    /\ main = "joining"
    /\ pc = "idle"
    /\ main' = "exited"
    /\ UNCHANGED <<api_url, camera, token, loginCalls, watchVars, sendVars,
                   exists, histVars>>

\* SIGTERM: the process ends with all its threads, wherever they are
Terminate ==
    /\ main \in {"login", "constructed", "watching", "joining"}
    /\ main' = "killed"
    /\ UNCHANGED <<api_url, camera, token, loginCalls, watchVars, sendVars,
                   exists, histVars>>

(***************************************************************************)
(* The watcher: the emitter thread puts an event on the observer's queue.  *)
(***************************************************************************)
Emit ==
    /\ main = "watching"
    /\ emitted < MaxEvents
    /\ \E e \in Events : queue' = Append(queue, e)
    /\ emitted' = emitted + 1
    /\ UNCHANGED <<mainVars, sendVars, exists, histVars>>

(***************************************************************************)
(* Observer thread.                                                        *)
(***************************************************************************)
\* an observer that hands the next event to the handler at any time
ObserverReady_Reentrant == TRUE

\* the observer is one thread: it takes the next event only when the
\* handler of the previous one has returned (send is called synchronously)
ObserverReady == pc = "idle"

\* the observer thread runs from observer.start() until the process ends
ObserverRunning == main \in {"watching", "joining"}

\* NewSegmentHandler.on_closed: does this event call send?
OnClosedSends(e) == e.event_type = "closed" /\ ReSearchTs(e.src_path)

\* dispatch of one event: on_any_event logs, then the handler of the
\* event's type runs; only on_closed is overridden
Dispatch ==
    /\ main = "watching"
    /\ ObserverReady
    /\ queue # <<>>
    /\ LET e == Head(queue) IN
        /\ queue' = Tail(queue)
        /\ IF OnClosedSends(e)
           THEN /\ inflight' = inflight + 1
                /\ sent_in_call' = 0
                /\ pc' = "checksum"
                /\ filename' = e.src_path
                /\ attempt' = 1
                /\ segment_sha1' = NoSha1
                /\ response' = NoResponse
                /\ branch' = "none"
                /\ exc' = "none"
                /\ wait' = 0
           ELSE UNCHANGED <<inflight, sent_in_call, sendVars>>
    /\ UNCHANGED <<mainVars, emitted, exists, acks, segment_sent>>

\* the retrying wrapper after an attempt: retry when the attempt raised,
\* return to on_closed when it returned
AfterAttempt(e) == IF ShouldReject(e) THEN "retry" ELSE "idle"

\* send returns to on_closed: one call fewer is in flight
Returned(next) == IF next = "idle" THEN inflight - 1 ELSE inflight

\* a checksum step that does not fail on a missing file
SegmentChecksum_NoOpen ==
    /\ ObserverRunning
    /\ pc = "checksum"
    /\ segment_sha1' = Sha1(filename)
    /\ exc' = "none"
    /\ pc' = "post"
    /\ wait' = 0
    /\ UNCHANGED <<mainVars, watchVars, filename, attempt, response, branch,
                   exists, histVars>>

\* segment_checksum(filename): open raises when the file does not exist
SegmentChecksum ==
    /\ ObserverRunning
    /\ pc = "checksum"
    /\ IF filename \in exists
       THEN /\ segment_sha1' = Sha1(filename)
            /\ exc' = "none"
            /\ pc' = "post"
       ELSE /\ segment_sha1' = segment_sha1
            /\ exc' = "FileNotFoundError"
            /\ pc' = AfterAttempt("FileNotFoundError")
    /\ wait' = 0
    /\ inflight' = Returned(pc')
    /\ UNCHANGED <<mainVars, watchVars, filename, attempt, response, branch,
                   exists, acks, segment_sent, sent_in_call>>

\* the remote API acknowledges the upload as delivered
IsDeliveredAck(r) ==
    /\ r.body = "json"
    /\ r.result.checksum
    /\ r.result.duration > 0
    /\ r.result.db_stored

\* self.api_session.post(...): the request fails, or a response comes back
Post ==
    /\ ObserverRunning
    /\ pc = "post"
    /\ \/ /\ filename \notin exists
          /\ exc' = "FileNotFoundError"
          /\ pc' = AfterAttempt("FileNotFoundError")
          /\ UNCHANGED <<response, acks>>
       \/ /\ filename \in exists
          /\ exc' = "ConnectionError"
          /\ pc' = AfterAttempt("ConnectionError")
          /\ UNCHANGED <<response, acks>>
       \/ /\ filename \in exists
          /\ \E r \in Responses :
                /\ response' = r
                /\ acks' = IF IsDeliveredAck(r)
                           THEN [acks EXCEPT ![filename] = @ + 1]
                           ELSE acks
          /\ exc' = "none"
          /\ pc' = "response"
    /\ inflight' = Returned(pc')
    /\ UNCHANGED <<mainVars, watchVars, filename, attempt, segment_sha1,
                   branch, wait, exists, segment_sent, sent_in_call>>

\* lines 119-131: response.json(), the if/elif chain, and on the else
\* branch the counter, the gauge and os.remove
HandleResponse ==
    /\ ObserverRunning
    /\ pc = "response"
    /\ \/ /\ response.body = "notjson"
          /\ exc' = "JSONDecodeError"
          /\ UNCHANGED <<branch, segment_sent, sent_in_call, exists>>
       \/ /\ response.body = "nokeys"
          /\ exc' = "KeyError"
          /\ UNCHANGED <<branch, segment_sent, sent_in_call, exists>>
       \/ /\ response.body = "json"
          /\ branch' = Branch(response.result)
          /\ IF branch' = "else"
             THEN /\ segment_sent' = segment_sent + 1
                  /\ sent_in_call' = sent_in_call + 1
                  /\ \E removed \in BOOLEAN :
                        IF removed
                        THEN exists' = exists \ {filename} /\ exc' = "none"
                        ELSE exists' = exists /\ exc' = "OSError"
             ELSE /\ segment_sent' = segment_sent
                  /\ sent_in_call' = sent_in_call
                  /\ exists' = exists
                  /\ exc' = Raises(branch')
    /\ pc' = AfterAttempt(exc')
    /\ inflight' = Returned(pc')
    /\ UNCHANGED <<mainVars, watchVars, filename, attempt, segment_sha1,
                   response, wait, acks>>

\* a retry that resumes at the upload with the checksum of the attempt before
Retry_NoChecksum ==
    /\ ObserverRunning
    /\ pc = "retry"
    /\ attempt < MaxAttempts
    /\ \E w \in RandomSleep : wait' = w
    /\ attempt' = attempt + 1
    /\ pc' = "post"
    /\ response' = NoResponse
    /\ branch' = "none"
    /\ exc' = "none"
    /\ UNCHANGED <<mainVars, watchVars, filename, segment_sha1, exists, histVars>>

\* a retry that logs in again before the next attempt
Retry_Relogin ==
    /\ ObserverRunning
    /\ pc = "retry"
    /\ attempt < MaxAttempts
    /\ \E w \in RandomSleep : wait' = w
    /\ attempt' = attempt + 1
    /\ pc' = "checksum"
    /\ segment_sha1' = NoSha1
    /\ response' = NoResponse
    /\ branch' = "none"
    /\ exc' = "none"
    /\ loginCalls' = loginCalls + 1
    /\ token' = "csrf2"
    /\ UNCHANGED <<main, api_url, camera, watchVars, filename, exists, histVars>>

\* retrying: sleep a random wait, then call the function again
Retry ==
    /\ ObserverRunning
    /\ pc = "retry"
    /\ attempt < MaxAttempts
    /\ \E w \in RandomSleep : wait' = w
    /\ attempt' = attempt + 1
    /\ pc' = "checksum"
    /\ segment_sha1' = NoSha1
    /\ response' = NoResponse
    /\ branch' = "none"
    /\ exc' = "none"
    /\ UNCHANGED <<mainVars, watchVars, filename, exists, histVars>>

Next ==
    \/ Login
    \/ ObserverStart
    \/ Interrupt
    \/ Join
    \/ Terminate
    \/ Emit
    \/ Dispatch
    \/ SegmentChecksum
    \/ Post
    \/ HandleResponse
    \/ Retry

Spec == Init /\ [][Next]_vars


(***************************************************************************)
(* Properties.                                                             *)
(***************************************************************************)
\* the path ends in the suffix .ts
EndsWithTs(s) ==
    /\ Len(s) >= 3
    /\ SubSeq(s, Len(s) - 2, Len(s)) = <<".", "t", "s">>

\* the classification of section 4.3 of the specification
Outcome(result) ==
    IF result.checksum = FALSE THEN "ChecksumRejected"
    ELSE IF result.duration <= 0 THEN "NotYetDurable"
    ELSE IF result.db_stored = FALSE THEN "DbNotUpdated"
    ELSE "Delivered"

\* the last attempt got a JSON response and ran the if/elif chain on it
Classified == response.body = "json" /\ branch # "none"

\* C1: a segment's file has been removed only if an earlier attempt for
\* that segment received a response with checksum true, duration > 0 and
\* db_stored true; and an attempt that got a response and left the file
\* removed is one that got such a response and raised nothing.
C1_RemovedOnlyAfterDelivered ==
    /\ \A p \in Paths : p \notin exists => acks[p] >= 1
    /\ (filename # NoPath /\ filename \notin exists /\ response.body # "none") =>
            /\ response.body = "json"
            /\ response.result.checksum
            /\ response.result.duration > 0
            /\ response.result.db_stored
            /\ exc = "none"

\* C1 witness: a file removed after failed attempts came first
C1_Witness ==
    /\ SegA \notin exists
    /\ filename = SegA
    /\ attempt >= 2
    /\ acks[SegA] = 1

\* C2: a response classified ChecksumRejected, NotYetDurable or
\* DbNotUpdated makes the attempt raise the corresponding failure and the
\* call retry; a send call that has returned had a Delivered response last.
C2_NonSuccessRaisesAndRetries ==
    /\ (Classified /\ Outcome(response.result) = "ChecksumRejected")
          => (exc = "ChecksumException" /\ pc = "retry")
    /\ (Classified /\ Outcome(response.result) = "NotYetDurable")
          => (exc = "FileStoreException" /\ pc = "retry")
    /\ (Classified /\ Outcome(response.result) = "DbNotUpdated")
          => (exc = "DbUpdateException" /\ pc = "retry")
    /\ (pc = "idle" /\ filename # NoPath)
          => (Classified /\ Outcome(response.result) = "Delivered")

\* C3: eventual delivery, in the form a finite run refutes: once the
\* observer is done with a closed event on a .ts path (send has returned,
\* so no further attempt will be made for that event), the segment has
\* been acknowledged Delivered and its file is deleted.
C3_HandledMeansDelivered ==
    (pc = "idle" /\ filename # NoPath /\ EndsWithTs(filename))
        => (acks[filename] >= 1 /\ filename \notin exists)

\* C4: no segment file has more than one upload acknowledged as Delivered.
C4_AtMostOneDeliveredAck ==
    \A p \in Paths : acks[p] <= 1

\* C5: a send call on a path already delivered and deleted fails fast on
\* file-not-found and terminates: it drops the attempt, no retry follows.
C5_DuplicateCallTerminates ==
    (exc = "FileNotFoundError" /\ filename \notin exists /\ acks[filename] >= 1)
        => pc = "idle"

\* C6: the observer starts a delivery attempt only on an event of kind
\* closed whose path ends in the suffix .ts.
C6_OnlyClosedTsStartsDelivery ==
    [][(pc = "idle" /\ pc' # "idle")
        => (/\ Head(queue).event_type = "closed"
            /\ EndsWithTs(Head(queue).src_path))]_vars

\* C7: the branch send takes on a response is the classification in the
\* fixed priority order: checksum false, else duration <= 0, else db_stored
\* false, else delivered; exactly one applies.
C7_ClassifyPriority ==
    Classified =>
        LET r == response.result
            o == Outcome(r)
        IN  /\ (o = "ChecksumRejected") <=> (branch = "raise_checksum_exception")
            /\ (o = "NotYetDurable") <=> (branch = "raise_file_store_exception")
            /\ (o = "DbNotUpdated") <=> (branch = "raise_db_update_exception")
            /\ (o = "Delivered") <=> (branch = "else")
            /\ (~ r.checksum) => branch = "raise_checksum_exception"

\* C7 witness: a false checksum wins over a positive duration and a true
\* db_stored
C7_Witness ==
    /\ Classified
    /\ ~ response.result.checksum
    /\ response.result.duration > 0
    /\ response.result.db_stored
    /\ branch = "raise_checksum_exception"

\* C8: at most one send call is in flight, and the observer is ready for
\* the next event exactly when none is.
C8_OneDeliveryInFlight ==
    /\ inflight <= 1
    /\ (pc = "idle") <=> (inflight = 0)

\* C8 witness: an event waits in the queue while a call is in its retries
C8_Witness ==
    /\ inflight = 1
    /\ attempt >= 2
    /\ queue # <<>>
    /\ Head(queue).event_type = "closed"
    /\ Head(queue).src_path = SegB
    /\ filename = SegA

\* C9: login is called once, before the observer is started; a process
\* whose login failed has made one login call, has no token, no event and
\* no attempt; a process that went on to start the observer has a token.
C9_LoginFailureFatal ==
    /\ main = "crashed" =>
            /\ loginCalls = 1
            /\ token = "none"
            /\ emitted = 0
            /\ queue = <<>>
            /\ pc = "idle"
            /\ inflight = 0
            /\ filename = NoPath
    /\ main \in {"constructed", "watching"} =>
            (loginCalls = 1 /\ token # "none")

\* C9 witness: the login request failed and the process is over
C9_Witness ==
    /\ main = "crashed"
    /\ loginCalls = 1
    /\ token = "none"

\* C10: every attempt that ends in an error or in a non-success outcome is
\* followed by another attempt of the same call.
C10_EveryFailureRetried ==
    (\/ exc # "none"
     \/ branch \in {"raise_checksum_exception", "raise_file_store_exception",
                    "raise_db_update_exception"})
        => pc = "retry"

\* the observer takes the event at the head of its queue
Dispatches == queue # <<>> /\ queue' = Tail(queue)

\* the event is a closed event on a path ending in .ts
ClosedTs(e) == e.event_type = "closed" /\ EndsWithTs(e.src_path)

\* C11: the process is not over (exited after join, or ended by the signal)
\* while a send call is still in flight.
C11_NoExitWhileCallbackInFlight ==
    main \in {"exited", "killed"} => (pc = "idle" /\ inflight = 0)

\* C12: once shutdown has begun the controller waits for the current
\* attempt only: no further attempt of the call in flight is started.
C12_ShutdownWaitsOneAttempt ==
    [][main = "joining" => attempt' <= attempt]_vars

\* C13: a send call that has returned after a Delivered response has
\* incremented segment_sent exactly once and its file no longer exists.
C13_SuccessCountedOnce ==
    (/\ pc = "idle"
     /\ filename # NoPath
     /\ Classified
     /\ Outcome(response.result) = "Delivered"
     /\ exc = "none")
        => (sent_in_call = 1 /\ filename \notin exists)

\* C14: the wait before every retry, the first and the later ones, is
\* between 1000 ms and 2000 ms.
C14_BackoffWithinWindow ==
    (pc = "checksum" /\ attempt >= 2) => (1000 <= wait /\ wait <= 2000)

\* C14 witness: the second retry of a call waits the maximum
C14_Witness ==
    /\ pc = "checksum"
    /\ attempt = 3
    /\ wait = 2000

\* C15: every attempt starts with no checksum and no response, computes the
\* checksum before the upload, has the response before the chain runs, and
\* removes the file only on the else branch of the chain.
C15_AttemptOrder ==
    /\ pc = "checksum" =>
          (segment_sha1 = NoSha1 /\ response = NoResponse /\ branch = "none")
    /\ pc = "post" =>
          (segment_sha1 = Sha1(filename) /\ response = NoResponse /\ branch = "none")
    /\ pc = "response" =>
          (segment_sha1 = Sha1(filename) /\ response # NoResponse /\ branch = "none")
    /\ branch # "none" =>
          (segment_sha1 = Sha1(filename) /\ response.body = "json")
    /\ (filename # NoPath /\ filename \notin exists /\ response # NoResponse) =>
          branch = "else"

\* C15 witness: a retry has recomputed the checksum and is about to upload
C15_Witness ==
    /\ pc = "post"
    /\ attempt >= 2
    /\ segment_sha1 = Sha1(filename)
    /\ response = NoResponse

\* C16: dispatching an event that is not a closed event on a .ts path
\* changes nothing but the queue it is taken from.
C16_DiscardChangesNothing ==
    [][(Dispatches /\ ~ ClosedTs(Head(queue)))
        => UNCHANGED <<mainVars, emitted, sendVars, exists, histVars>>]_vars

\* C17: events leave the queue in arrival order, and each dispatched event
\* invokes send, on its own path, exactly when it is a closed event on a
\* .ts path.
C17_InvocationsFollowEvents ==
    [][Len(queue') < Len(queue) =>
        /\ queue' = Tail(queue)
        /\ ClosedTs(Head(queue)) <=> (inflight' = inflight + 1)
        /\ (inflight' = inflight + 1) =>
              (filename' = Head(queue).src_path /\ attempt' = 1 /\ pc' = "checksum")]_vars

\* C18: login is called at most once, and from construction on, through
\* every attempt and retry, the session has the token, URL and camera that
\* startup gave it.
C18_SessionReadOnly ==
    /\ loginCalls <= 1
    /\ (main \in {"constructed", "watching", "joining", "exited"} \/ attempt >= 1) =>
          /\ loginCalls = 1
          /\ token = "csrf"
          /\ api_url = "args.api"
          /\ camera = "camera_name"

\* C18 witness: a retry after a failed request, session as at startup
C18_Witness ==
    /\ pc = "checksum"
    /\ attempt >= 2
    /\ loginCalls = 1
    /\ token = "csrf"

\* C19: an attempt on a path whose file does not exist never reaches the
\* upload: it is past the checksum step only if the file exists, and an
\* attempt that failed on the missing file has no response.
C19_NoUploadWithoutFile ==
    /\ pc \in {"post", "response"} => filename \in exists
    /\ (pc = "retry" /\ filename \notin exists) =>
          (exc = "FileNotFoundError" /\ response = NoResponse)

\* C19 witness: a second call on a path delivered and deleted by the first
C19_Witness ==
    /\ pc = "retry"
    /\ filename \notin exists
    /\ acks[filename] = 1
    /\ exc = "FileNotFoundError"
    /\ response = NoResponse

=============================================================================
